---- MODULE Spec2Model ----
(***************************************************************************)
(* A model of toot_search: the SQLite archive store (database.py), the     *)
(* index command (toot_search.py) and the HTML renderer (render.py).       *)
(***************************************************************************)
EXTENDS Integers, Sequences, FiniteSets, TLC

VARIABLES
    dbFile,     \* the store's file: "absent", "empty" (a file with no table), "table"
    rows,       \* table status: INTEGER PRIMARY KEY id -> pickled blob
    last,       \* the last Database call: its name, argument, exception and return value
    log,        \* history: the raw dicts of the successful first inserts since creation, in order
    published,  \* remote service: number of posts the account has published
    indexExists,\* the directory 'index' exists
    docs,       \* the index's committed documents: id -> number of documents with that id
    pending,    \* documents added to the open writer and not committed
    pc,         \* cmd_index's position
    chunk,      \* get_statuses: the items of the current page not yet yielded
    p_next,     \* get_statuses: the current page's _pagination_next (<<>> is None)
    raised,     \* an exception is propagating out of cmd_index's with block
    runs,       \* number of index commands started
    lastRun,    \* how the last index command ended: "none", "completed", "failed", "killed"
    added,      \* history: the ids passed to add_document in this run, in order
    atStart,    \* history: docs, published and StoredIds when this run started
    interrupted,\* history: an earlier run failed or was killed
    pages,      \* history: the pages this run fetched, each with its items, its
                \* _pagination_next and the number of posts yielded before the request
    unwound,    \* history: what this run's unwinding did, in order
    rawdata,    \* HTMLParser: the text fed and not yet passed to handle_data
    paragraphs, \* BasicHTML._paragraphs: a list of Paragraphs, each a list of Lines
    fed,        \* number of characters and tags of the input fed so far
    rpc,        \* render's position: "feed", "done", "again"
    yielded,    \* the lines a first enumeration of render's value yields
    src,        \* history: the characters and tags fed, in order
    gen,        \* the generator render returned: the lines it has still to yield
    again       \* the lines a second enumeration of the same value yields

storeVars == <<dbFile, rows, last, log>>

syncVars == <<published, indexExists, docs, pending, pc, chunk, p_next, raised, runs,
              lastRun, added, atStart, interrupted, pages, unwound>>

renderVars == <<rawdata, paragraphs, fed, rpc, yielded, src, gen, again>>

vars == <<storeVars, syncVars, renderVars>>

----------------------------------------------------------------------------
(* Bounds *)

FirstId == 8        \* the smallest post id of the model
NumIds == 3         \* number of distinct post ids
PageSize == 2       \* posts per page of the remote service
MaxRuns == 2        \* number of index commands
MaxFeed == 5        \* characters and tags of a rendered fragment
display_width == 2  \* render's display_width

Ids == FirstId .. (FirstId + NumIds - 1)
Contents == {"x", "y"}

----------------------------------------------------------------------------
(* Values and conversions *)

EmptyRows == [k \in {} |-> <<>>]

DigitChars == <<"0", "1", "2", "3", "4", "5", "6", "7", "8", "9">>

DigitVal(c) == (CHOOSE d \in 1..10 : DigitChars[d] = c) - 1

RECURSIVE Str(_)
\* str(n) of a non-negative int: its decimal digits
Str(n) == IF n < 10 THEN <<DigitChars[n + 1]>>
          ELSE Append(Str(n \div 10), DigitChars[(n % 10) + 1])

RECURSIVE SqliteInteger(_)
\* INTEGER affinity of the id column: a decimal text value becomes its integer
SqliteInteger(s) == IF Len(s) = 0 THEN 0
                    ELSE 10 * SqliteInteger(SubSeq(s, 1, Len(s) - 1)) + DigitVal(s[Len(s)])

\* the raw dicts a Status wraps
RawDicts == [id : Ids, content : Contents]

\* Status.id
StatusId(raw) == Str(raw.id)

\* pickle.dumps / pickle.loads of a raw dict
PickleDumps(raw) == <<"dict", <<"id", raw.id>>, <<"content", raw.content>>>>

PickleLoads(blob) == [id |-> blob[2][2], content |-> blob[3][2]]

\* None, as an argument list and as a return value
None == [none |-> TRUE]

\* the return value and exception of a call
Ok(v) == [err |-> "none", ret |-> v]

Raise(e) == [err |-> e, ret |-> None]

Call(op, arg, res) == [op |-> op, arg |-> arg, err |-> res.err, ret |-> res.ret]

\* sqlite3.connect(path) creates the file when it is absent
Connect(file) == IF file = "absent" THEN "empty" ELSE file

----------------------------------------------------------------------------
(* Database *)

\* create: [file, rows] after create(recreate=...)
CreateAlways(file, rws, recreate) == [file |-> "table", rows |-> EmptyRows]

CreateOutcome(file, rws, recreate) ==
    IF file # "absent" /\ ~recreate
    THEN [file |-> file, rows |-> rws]
    ELSE [file |-> "table", rows |-> EmptyRows]

\* SELECT MAX(id) FROM status
RECURSIVE LexLess(_, _)
LexLess(s, t) ==
    IF Len(s) = 0 THEN Len(t) > 0
    ELSE IF Len(t) = 0 THEN FALSE
    ELSE IF s[1] # t[1] THEN DigitVal(s[1]) < DigitVal(t[1])
    ELSE LexLess(Tail(s), Tail(t))

SelectMaxText(rws) ==
    IF DOMAIN rws = {} THEN None
    ELSE [id |-> CHOOSE k \in DOMAIN rws :
                   \A j \in DOMAIN rws : j = k \/ LexLess(Str(j), Str(k))]

SelectMax(rws) ==
    IF DOMAIN rws = {} THEN None
    ELSE [id |-> CHOOSE k \in DOMAIN rws : \A j \in DOMAIN rws : j <= k]

\* max_id: the MAX(id) column of the one row the aggregate returns (NULL is None)
MaxIdOutcome(file, rws) ==
    IF file # "table" THEN Raise("OperationalError")
    ELSE [err |-> "none", ret |-> SelectMax(rws)]

\* get
GetDefault(file, rws, id) ==
    IF file # "table" THEN Raise("OperationalError")
    ELSE IF SqliteInteger(id) \notin DOMAIN rws
    THEN Ok([status |-> [id |-> SqliteInteger(id), content |-> "x"]])
    ELSE Ok([status |-> PickleLoads(rws[SqliteInteger(id)])])

GetOutcome(file, rws, id) ==
    IF file # "table" THEN Raise("OperationalError")
    ELSE IF SqliteInteger(id) \notin DOMAIN rws THEN Raise("KeyError")
    ELSE Ok([status |-> PickleLoads(rws[SqliteInteger(id)])])

\* insert: the exception, and the table after the connection commits or rolls back
PutRow(rws, k, blob) == [j \in DOMAIN rws \cup {k} |-> IF j = k THEN blob ELSE rws[j]]

InsertOrReplace(file, rws, raw) ==
    IF file # "table" THEN [err |-> "OperationalError", rows |-> rws]
    ELSE [err |-> "none", rows |-> PutRow(rws, SqliteInteger(StatusId(raw)), PickleDumps(raw))]

InsertOrIgnore(file, rws, raw) ==
    IF file # "table" THEN [err |-> "OperationalError", rows |-> rws]
    ELSE IF SqliteInteger(StatusId(raw)) \in DOMAIN rws
    THEN [err |-> "none", rows |-> rws]
    ELSE [err |-> "none", rows |-> PutRow(rws, SqliteInteger(StatusId(raw)), PickleDumps(raw))]

InsertOutcome(file, rws, raw) ==
    IF file # "table" THEN [err |-> "OperationalError", rows |-> rws]
    ELSE IF SqliteInteger(StatusId(raw)) \in DOMAIN rws
    THEN [err |-> "IntegrityError", rows |-> rws]
    ELSE [err |-> "none", rows |-> PutRow(rws, SqliteInteger(StatusId(raw)), PickleDumps(raw))]

\* items: (id, Status) of every row, in rowid order
RECURSIVE ScanRows(_, _)
ScanRows(rws, todo) ==
    IF todo = {} THEN <<>>
    ELSE LET k == CHOOSE j \in todo : \A i \in todo : j <= i
         IN <<<<k, PickleLoads(rws[k])>>>> \o ScanRows(rws, todo \ {k})

ItemsOutcome(file, rws) ==
    IF file # "table" THEN Raise("OperationalError")
    ELSE Ok([items |-> ScanRows(rws, DOMAIN rws)])

\* the ids and records of the successful inserts
LogIds == {log[i].id : i \in 1..Len(log)}

Inserted(n) == log[CHOOSE i \in 1..Len(log) : log[i].id = n]

create(recreate) ==
    LET out == CreateOutcome(dbFile, rows, recreate)
    IN /\ dbFile' = out.file
       /\ rows' = out.rows
       /\ last' = Call("create", [recreate |-> recreate], Ok(None))
       /\ log' = IF dbFile # "absent" /\ ~recreate THEN log ELSE <<>>

max_id ==
    /\ dbFile' = Connect(dbFile)
    /\ last' = Call("max_id", None, MaxIdOutcome(dbFile', rows))
    /\ UNCHANGED <<rows, log>>

get(id) ==
    /\ dbFile' = Connect(dbFile)
    /\ last' = Call("get", [id |-> id], GetOutcome(dbFile', rows, id))
    /\ UNCHANGED <<rows, log>>

insert(raw) ==
    LET out == InsertOutcome(Connect(dbFile), rows, raw)
    IN /\ dbFile' = Connect(dbFile)
       /\ rows' = out.rows
       /\ last' = Call("insert", [status |-> raw], [err |-> out.err, ret |-> None])
       /\ log' = IF out.err = "none" /\ raw.id \notin LogIds
                 THEN Append(log, raw)
                 ELSE log

items ==
    /\ dbFile' = Connect(dbFile)
    /\ last' = Call("items", None, ItemsOutcome(dbFile', rows))
    /\ UNCHANGED <<rows, log>>

----------------------------------------------------------------------------
(* The index command *)

\* the documents of an index that holds none
NoDocs == [d \in {Str(n) : n \in Ids} |-> 0]

\* the remote service's posts of the account, and the raw dict of one
RemoteIds == FirstId .. (FirstId + published - 1)

RemoteRaw(n) == [id |-> n, content |-> "x"]

RECURSIVE Newest(_, _)
\* the k greatest ids of a set, newest first
Newest(S, k) ==
    IF S = {} \/ k = 0 THEN <<>>
    ELSE LET m == CHOOSE j \in S : \A i \in S : i <= j
         IN <<m>> \o Newest(S \ {m}, k - 1)

\* api.account_statuses(account['id'], max_id=...): one page, newest first, of the
\* posts older than max_id (<<>> is no max_id), and its _pagination_next, which
\* the service sends with a full page
Older(max) == IF max = <<>> THEN RemoteIds ELSE {n \in RemoteIds : n < max[1]}

account_statuses(max) == Newest(Older(max), PageSize)

pagination_next(page) == IF Len(page) = PageSize THEN <<page[Len(page)]>> ELSE <<>>

\* Status(id=str(raw['id']), ...)
StatusOf(raw) == [id |-> Str(raw.id), content |-> raw.content]

\* writer.add_document(**dataclasses.asdict(status)): the document is appended
AddDocument(pend, status) == Append(pend, status.id)

\* a commit that writes the first pending document only
CommitFirst(dcs, pend) ==
    IF pend = <<>> THEN dcs ELSE [dcs EXCEPT ![Head(pend)] = @ + 1]

RECURSIVE Commit(_, _)
\* writer.commit(): the pending documents become part of the index
Commit(dcs, pend) ==
    IF pend = <<>> THEN dcs
    ELSE Commit([dcs EXCEPT ![Head(pend)] = @ + 1], Tail(pend))

\* cmd_index up to the writer: open_index opens or creates the index directory,
\* index.writer() starts a writer and its commit is registered with the stack
cmd_index ==
    /\ pc = "idle"
    /\ runs < MaxRuns
    /\ runs' = runs + 1
    /\ indexExists' = TRUE
    /\ pending' = <<>>
    /\ added' = <<>>
    /\ atStart' = [docs |-> docs, published |-> published,
                   stored |-> {PickleLoads(rows[k]).id : k \in DOMAIN rows}]
    /\ raised' = FALSE
    /\ pc' = "opened"
    /\ pages' = <<>>
    /\ unwound' = <<>>
    /\ UNCHANGED <<published, docs, chunk, p_next, lastRun, interrupted>>

\* Client.open: create_app over the session, which may fail; a failure closes the
\* session inside Client.open and unwinds the stack
Client_open(ok) ==
    /\ pc = "opened"
    /\ pc' = IF ok THEN "client" ELSE "exit_commit"
    /\ raised' = ~ok
    /\ unwound' = IF ok THEN unwound ELSE Append(unwound, "session_close")
    /\ UNCHANGED <<published, indexExists, docs, pending, chunk, p_next, runs, lastRun,
                   added, atStart, interrupted, pages>>

\* get_statuses: api.account_lookup(user)
account_lookup(ok) ==
    /\ pc = "client"
    /\ pc' = IF ok THEN "first" ELSE "exit_client"
    /\ raised' = ~ok
    /\ UNCHANGED <<published, indexExists, docs, pending, chunk, p_next, runs, lastRun,
                   added, atStart, interrupted, pages, unwound>>

\* chunks(): the first page, and then a page per _pagination_next, each requested
\* when the previous page's items are exhausted
chunks(ok) ==
    /\ \/ pc = "first"
       \/ pc = "chunk" /\ chunk = <<>> /\ p_next # <<>>
    /\ IF ok
       THEN LET page == account_statuses(IF pc = "first" THEN <<>> ELSE p_next)
            IN /\ chunk' = page
               /\ p_next' = pagination_next(page)
               /\ pc' = "chunk"
               /\ raised' = FALSE
               /\ pages' = Append(pages, [items |-> page, next |-> pagination_next(page),
                                           before |-> Len(added)])
       ELSE /\ pc' = "exit_client"
            /\ raised' = TRUE
            /\ UNCHANGED <<chunk, p_next, pages>>
    /\ UNCHANGED <<published, indexExists, docs, pending, runs, lastRun, added, atStart,
                   interrupted, unwound>>

\* the loop body: the next Status of the page is added to the writer
add_document ==
    /\ pc = "chunk"
    /\ chunk # <<>>
    /\ pending' = AddDocument(pending, StatusOf(RemoteRaw(Head(chunk))))
    /\ added' = Append(added, StatusOf(RemoteRaw(Head(chunk))).id)
    /\ chunk' = Tail(chunk)
    /\ UNCHANGED <<published, indexExists, docs, pc, p_next, raised, runs, lastRun,
                   atStart, interrupted, pages, unwound>>

\* a loop that stops at the end of the first page, whatever its _pagination_next
exhausted_first_page ==
    /\ pc = "chunk"
    /\ chunk = <<>>
    /\ pc' = "exit_client"
    /\ UNCHANGED <<published, indexExists, docs, pending, chunk, p_next, raised, runs,
                   lastRun, added, atStart, interrupted, pages, unwound>>

\* the generator is exhausted: the last page had no _pagination_next
exhausted ==
    /\ pc = "chunk"
    /\ chunk = <<>>
    /\ p_next = <<>>
    /\ pc' = "exit_client"
    /\ UNCHANGED <<published, indexExists, docs, pending, chunk, p_next, raised, runs,
                   lastRun, added, atStart, interrupted, pages, unwound>>

\* an unwinding that has no commit registered: the session is closed, then the index
exit_client_no_callback ==
    /\ pc = "exit_client"
    /\ pc' = "exit_index"
    /\ unwound' = Append(unwound, "session_close")
    /\ UNCHANGED <<published, indexExists, docs, pending, chunk, p_next, raised, runs,
                   lastRun, added, atStart, interrupted, pages>>

\* ExitStack unwinds: Client.open's session is closed
exit_client ==
    /\ pc = "exit_client"
    /\ pc' = "exit_commit"
    /\ unwound' = Append(unwound, "session_close")
    /\ UNCHANGED <<published, indexExists, docs, pending, chunk, p_next, raised, runs,
                   lastRun, added, atStart, interrupted, pages>>

\* ExitStack unwinds: the registered writer.commit
exit_commit ==
    /\ pc = "exit_commit"
    /\ docs' = Commit(docs, pending)
    /\ pending' = <<>>
    /\ pc' = "exit_index"
    /\ unwound' = Append(unwound, "commit")
    /\ UNCHANGED <<published, indexExists, chunk, p_next, raised, runs, lastRun, added,
                   atStart, interrupted, pages>>

\* ExitStack unwinds: open_index closes the index; cmd_index returns or raises
exit_index ==
    /\ pc = "exit_index"
    /\ pc' = "idle"
    /\ lastRun' = IF raised THEN "failed" ELSE "completed"
    /\ interrupted' = (interrupted \/ raised)
    /\ chunk' = <<>>
    /\ p_next' = <<>>
    /\ unwound' = Append(unwound, "index_close")
    /\ UNCHANGED <<published, indexExists, docs, pending, raised, runs, added, atStart,
                   pages>>

\* the process is terminated: what the writer holds is not committed
kill ==
    /\ pc # "idle"
    /\ pc' = "idle"
    /\ pending' = <<>>
    /\ chunk' = <<>>
    /\ p_next' = <<>>
    /\ lastRun' = "killed"
    /\ interrupted' = TRUE
    /\ UNCHANGED <<published, indexExists, docs, raised, runs, added, atStart, pages,
                   unwound>>

\* the account publishes a post; ids grow
publish ==
    /\ published < NumIds
    /\ published' = published + 1
    /\ UNCHANGED <<indexExists, docs, pending, pc, chunk, p_next, raised, runs, lastRun,
                   added, atStart, interrupted, pages, unwound>>

\* the state before any call: no store file, no index directory, no run
Fresh ==
    /\ dbFile = "absent"
    /\ rows = EmptyRows
    /\ last = Call("new", None, Ok(None))
    /\ log = <<>>
    /\ indexExists = FALSE
    /\ docs = NoDocs
    /\ pending = <<>>
    /\ pc = "idle"
    /\ chunk = <<>>
    /\ p_next = <<>>
    /\ raised = FALSE
    /\ runs = 0
    /\ lastRun = "none"
    /\ added = <<>>
    /\ atStart = [docs |-> NoDocs, published |-> 0, stored |-> {}]
    /\ interrupted = FALSE
    /\ pages = <<>>
    /\ unwound = <<>>
    /\ rawdata = <<>>
    /\ paragraphs = <<>>
    /\ fed = 0
    /\ rpc = "feed"
    /\ yielded = <<>>
    /\ src = <<>>
    /\ gen = <<>>
    /\ again = <<>>

----------------------------------------------------------------------------
(* The renderer *)

\* the characters of a fragment's text, and the tags: <p>, <br>, and </p> for
\* the tags no handler looks at
Chars == {"a", " ", "&"}

Tags == {"p", "br", "/p"}

RECURSIVE Join(_)
\* ''.join(chunks)
Join(cs) == IF cs = <<>> THEN <<>> ELSE Head(cs) \o Join(Tail(cs))

\* Line.contents
contents(line) == Join(line)

\* Paragraph._last_line followed by Line.append: Paragraph.append
Paragraph_append(par, piece) ==
    IF par = <<>> THEN <<<<piece>>>>
    ELSE [par EXCEPT ![Len(par)] = Append(@, piece)]

\* Paragraph.line_break
line_break(par) == Append(par, <<>>)

\* Paragraph.lines
lines(par) == [i \in 1..Len(par) |-> contents(par[i])]

\* BasicHTML._last_paragraph: the list with a Paragraph in it
last_paragraph(pars) == IF pars = <<>> THEN <<<<>>>> ELSE pars

\* BasicHTML.handle_starttag
handle_starttag(pars, tag) ==
    LET afterP == IF tag = "p" THEN Append(pars, <<>>) ELSE pars
    IN IF tag = "br"
       THEN [last_paragraph(afterP) EXCEPT ![Len(last_paragraph(afterP))] = line_break(@)]
       ELSE afterP

\* BasicHTML.handle_data
handle_data(pars, data) ==
    [last_paragraph(pars) EXCEPT ![Len(last_paragraph(pars))] = Paragraph_append(@, data)]

RECURSIVE raw_lines(_)
\* BasicHTML._raw_lines
raw_lines(pars) ==
    IF pars = <<>> THEN <<>>
    ELSE <<<<>>>> \o lines(Head(pars)) \o raw_lines(Tail(pars))

RECURSIVE CompressInternal(_, _)
\* _compressed_lines, second loop
CompressInternal(raw, blank_lines) ==
    IF raw = <<>> THEN <<>>
    ELSE IF Head(raw) = <<>> THEN CompressInternal(Tail(raw), blank_lines + 1)
    ELSE (IF blank_lines > 0 THEN <<<<>>>> ELSE <<>>)
           \o <<Head(raw)>> \o CompressInternal(Tail(raw), 0)

RECURSIVE DiscardLeading(_)
\* _compressed_lines, first loop
DiscardLeading(raw) ==
    IF raw = <<>> THEN <<>>
    ELSE IF Head(raw) = <<>> THEN DiscardLeading(Tail(raw))
    ELSE <<Head(raw)>> \o CompressInternal(Tail(raw), 0)

\* BasicHTML._compressed_lines
compressed_lines(pars) == DiscardLeading(raw_lines(pars))

\* chunk.strip() == ''
IsBlank(piece) == \A i \in 1..Len(piece) : piece[i] = " "

RECURSIVE Split(_)
\* TextWrapper._split: the runs of whitespace and the words between them
Split(text) ==
    IF text = <<>> THEN <<>>
    ELSE LET same(i) == (text[i] = " ") = (text[1] = " ")
             n == CHOOSE k \in 1..Len(text) :
                    /\ \A i \in 1..k : same(i)
                    /\ k = Len(text) \/ ~same(k + 1)
         IN <<SubSeq(text, 1, n)>> \o Split(SubSeq(text, n + 1, Len(text)))

RECURSIVE Fill(_, _, _)
\* TextWrapper._wrap_chunks, inner loop: [line, rest] once no further chunk fits
Fill(cur_line, cs, width) ==
    IF cs # <<>> /\ Len(Join(cur_line)) + Len(Head(cs)) <= width
    THEN Fill(Append(cur_line, Head(cs)), Tail(cs), width)
    ELSE [line |-> cur_line, rest |-> cs]

\* TextWrapper._handle_long_word with break_long_words
handle_long_word(f, width) ==
    LET space_left == IF width < 1 THEN 1 ELSE width - Len(Join(f.line))
        piece == Head(f.rest)
    IN [line |-> Append(f.line, SubSeq(piece, 1, space_left)),
        rest |-> <<SubSeq(piece, space_left + 1, Len(piece))>> \o Tail(f.rest)]

RECURSIVE wrap_chunks(_, _, _)
\* TextWrapper._wrap_chunks with drop_whitespace; started: a line has been made
wrap_chunks(cs, width, started) ==
    IF cs = <<>> THEN <<>>
    ELSE LET first == IF IsBlank(Head(cs)) /\ started THEN Tail(cs) ELSE cs
             f == Fill(<<>>, first, width)
             g == IF f.rest # <<>> /\ Len(Head(f.rest)) > width
                  THEN handle_long_word(f, width) ELSE f
             cur_line == IF g.line # <<>> /\ IsBlank(g.line[Len(g.line)])
                         THEN SubSeq(g.line, 1, Len(g.line) - 1) ELSE g.line
         IN IF cur_line # <<>>
            THEN <<Join(cur_line)>> \o wrap_chunks(g.rest, width, TRUE)
            ELSE wrap_chunks(g.rest, width, started)

\* string.whitespace, of which the model's texts have the space and the newline
Whitespace == {" ", "\n"}

\* TextWrapper._munge_whitespace with replace_whitespace
Munge(text) == [i \in 1..Len(text) |-> IF text[i] \in Whitespace THEN " " ELSE text[i]]

\* textwrap.wrap(text, width=width)
wrap(text, width) == wrap_chunks(Split(Munge(text)), width, FALSE)

RECURSIVE render_lines_drop(_, _)
render_lines_drop(ls, width) ==
    IF ls = <<>> THEN <<>>
    ELSE wrap(Head(ls), width) \o render_lines_drop(Tail(ls), width)

RECURSIVE render_lines(_, _)
\* render's loop: textwrap.wrap(line, width=display_width) or ['']
render_lines(ls, width) ==
    IF ls = <<>> THEN <<>>
    ELSE (IF wrap(Head(ls), width) = <<>> THEN <<<<>>>> ELSE wrap(Head(ls), width))
           \o render_lines(Tail(ls), width)

WaitsNever(text) == FALSE

\* HTMLParser.goahead(0) at the end of the fed text: text that may end inside a
\* character reference (an '&' with no whitespace after it) waits for more input
Waits(text) ==
    \E i \in 1..Len(text) :
        text[i] = "&" /\ \A j \in i..Len(text) : text[j] \notin Whitespace

\* list(...) of a generator: the lines it yields, and what it has left to yield
EnumerateList(remaining) == [lines |-> remaining, left |-> remaining]

Enumerate(remaining) == [lines |-> remaining, left |-> <<>>]

\* r.feed(src), one character of text
feed_char(c) ==
    /\ rpc = "feed"
    /\ fed < MaxFeed
    /\ fed' = fed + 1
    /\ rawdata' = Append(rawdata, c)
    /\ src' = Append(src, c)
    /\ UNCHANGED <<paragraphs, rpc, yielded, gen, again>>

\* r.feed(src), one tag: the text before it goes to handle_data, a start tag to
\* handle_starttag
feed_tag(tag) ==
    /\ rpc = "feed"
    /\ fed < MaxFeed
    /\ fed' = fed + 1
    /\ rawdata' = <<>>
    /\ LET pars == IF rawdata = <<>> THEN paragraphs ELSE handle_data(paragraphs, rawdata)
       IN paragraphs' = IF tag = "/p" THEN pars ELSE handle_starttag(pars, tag)
    /\ src' = Append(src, tag)
    /\ UNCHANGED <<rpc, yielded, gen, again>>

\* BasicHTML.render, enumerated: the end of r.feed(src), and the lines yielded
render ==
    /\ rpc = "feed"
    /\ rpc' = "done"
    /\ LET pars == IF rawdata = <<>> \/ Waits(rawdata) THEN paragraphs
                   ELSE handle_data(paragraphs, rawdata)
           e == Enumerate(render_lines(compressed_lines(pars), display_width))
       IN /\ paragraphs' = pars
          /\ yielded' = e.lines
          /\ gen' = e.left
    /\ UNCHANGED <<rawdata, fed, src, again>>

\* the value render returned is enumerated a second time
enumerate_again ==
    /\ rpc = "done"
    /\ rpc' = "again"
    /\ LET e == Enumerate(gen)
       IN /\ again' = e.lines
          /\ gen' = e.left
    /\ UNCHANGED <<rawdata, paragraphs, fed, yielded, src>>

----------------------------------------------------------------------------
(* Specifications *)

StoreNext ==
    \/ (\E recreate \in BOOLEAN : create(recreate)) /\ UNCHANGED <<syncVars, renderVars>>
    \/ max_id /\ UNCHANGED <<syncVars, renderVars>>
    \/ (\E n \in Ids : get(Str(n))) /\ UNCHANGED <<syncVars, renderVars>>
    \/ (\E raw \in RawDicts : insert(raw)) /\ UNCHANGED <<syncVars, renderVars>>
    \/ items /\ UNCHANGED <<syncVars, renderVars>>

\* the archive store under any sequence of Database calls
StoreInit == Fresh /\ published = 0

SpecStore == StoreInit /\ [][StoreNext]_vars

SyncNext ==
    \/ cmd_index /\ UNCHANGED <<storeVars, renderVars>>
    \/ (\E ok \in BOOLEAN : Client_open(ok)) /\ UNCHANGED <<storeVars, renderVars>>
    \/ (\E ok \in BOOLEAN : account_lookup(ok)) /\ UNCHANGED <<storeVars, renderVars>>
    \/ (\E ok \in BOOLEAN : chunks(ok)) /\ UNCHANGED <<storeVars, renderVars>>
    \/ add_document /\ UNCHANGED <<storeVars, renderVars>>
    \/ exhausted /\ UNCHANGED <<storeVars, renderVars>>
    \/ exit_client /\ UNCHANGED <<storeVars, renderVars>>
    \/ exit_commit /\ UNCHANGED <<storeVars, renderVars>>
    \/ exit_index /\ UNCHANGED <<storeVars, renderVars>>
    \/ kill /\ UNCHANGED <<storeVars, renderVars>>
    \/ publish /\ UNCHANGED <<storeVars, renderVars>>

\* index commands run one after another against a remote account that publishes
SyncInit == Fresh /\ published \in 0..NumIds

SpecSync == SyncInit /\ [][SyncNext]_vars

RenderNext ==
    \/ (\E c \in Chars : feed_char(c)) /\ UNCHANGED <<storeVars, syncVars>>
    \/ (\E tag \in Tags : feed_tag(tag)) /\ UNCHANGED <<storeVars, syncVars>>
    \/ render /\ UNCHANGED <<storeVars, syncVars>>
    \/ enumerate_again /\ UNCHANGED <<storeVars, syncVars>>

\* render on every fragment of at most MaxFeed characters and tags
RenderInit == Fresh /\ published = 0

SpecRender == RenderInit /\ [][RenderNext]_vars

----------------------------------------------------------------------------
(* Archive store properties *)

\* the records the table holds
Stored == {PickleLoads(rows[k]) : k \in DOMAIN rows}

StoredIds == {r.id : r \in Stored}

\* C5: an insert of a record whose id is already stored raises the duplicate-key
\* error (sqlite3.IntegrityError) to the caller and changes nothing in the store:
\* the record under that id is kept and no record is added.
C5_DuplicateInsertFails ==
    [][(last'.op = "insert" /\ last'.arg.status.id \in StoredIds)
          => (last'.err = "IntegrityError" /\ rows' = rows /\ dbFile' = dbFile)]_vars

\* an insert of a stored id with another content has failed and the record is kept
C5_Witness ==
    /\ last.op = "insert"
    /\ last.err = "IntegrityError"
    /\ \E r \in Stored : r.id = last.arg.status.id /\ r.content # last.arg.status.content

\* C6: once insert has succeeded for an id, get of that id returns a record equal
\* to the inserted one after any later insert, get, items, max_id and
\* create(recreate=False) calls (the history restarts at a create that makes a
\* new table).
C6_ArchivedImmutable ==
    /\ \A n \in LogIds : GetOutcome(dbFile, rows, Str(n)) = Ok([status |-> Inserted(n)])
    /\ \A n \in LogIds : (last.op = "get" /\ last.arg.id = Str(n))
          => (last.err = "none" /\ last.ret = [status |-> Inserted(n)])

\* a get returned the first record archived after a later insert
C6_Witness ==
    /\ last.op = "get"
    /\ last.err = "none"
    /\ Len(log) >= 2
    /\ last.ret = [status |-> log[1]]

\* C7: on a created store max_id returns the greatest stored id whatever the
\* order of the inserts, and None when the table is empty; the value is that of
\* the table's contents at the call.
C7_MaxId ==
    (last.op = "max_id" /\ dbFile = "table")
      => /\ last.err = "none"
         /\ StoredIds = {} => last.ret = None
         /\ StoredIds # {} =>
               /\ last.ret # None
               /\ last.ret.id \in StoredIds
               /\ \A n \in StoredIds : n <= last.ret.id

\* max_id returned a two-digit id that was inserted before a smaller one
C7_Witness ==
    /\ last.op = "max_id"
    /\ Len(log) >= 2
    /\ log[1].id > log[2].id
    /\ last.ret = [id |-> log[1].id]
    /\ Len(Str(log[1].id)) > Len(Str(log[2].id))

\* max_id returned None on an empty table
C7_WitnessEmpty == last.op = "max_id" /\ dbFile = "table" /\ last.ret = None

\* C8: on a created store, get of an id no stored record has raises KeyError
\* (no record, no default is returned) and leaves the store as it was.
C8_GetNotFound ==
    [][(last'.op = "get" /\ dbFile = "table"
          /\ ~\E r \in Stored : StatusId(r) = last'.arg.id)
          => (/\ last'.err = "KeyError"
              /\ last'.ret = None
              /\ rows' = rows
              /\ dbFile' = dbFile)]_vars

\* a get of an absent id failed on a store that holds other records
C8_Witness == last.op = "get" /\ last.err = "KeyError" /\ Stored # {}

\* C9: create(recreate=False) on storage that exists changes nothing;
\* create(recreate=True) leaves an empty table; and no other call removes or
\* changes a stored record.
C9_CreateFrame ==
    [][/\ (last'.op = "create" /\ dbFile # "absent" /\ ~last'.arg.recreate)
            => (rows' = rows /\ dbFile' = dbFile)
       /\ (last'.op = "create" /\ dbFile # "absent" /\ last'.arg.recreate)
            => (rows' = EmptyRows /\ dbFile' = "table")
       /\ (\E k \in DOMAIN rows : k \notin DOMAIN rows' \/ rows'[k] # rows[k])
            => (last'.op = "create" /\ last'.arg.recreate)]_vars

\* create(recreate=False) was called on a store that holds records, and they remain
C9_Witness == last.op = "create" /\ ~last.arg.recreate /\ Cardinality(Stored) >= 2

\* create(recreate=True) emptied a store that held records
C9_WitnessRecreate == last.op = "create" /\ last.arg.recreate /\ rows = EmptyRows /\ dbFile = "table"

----------------------------------------------------------------------------
(* Index command properties *)

\* the ids the index holds, those it held and those the store held when the
\* run started, and the ids the run added
IndexIds == {d \in DOMAIN docs : docs[d] > 0}

IndexIdsAtStart == {d \in DOMAIN atStart.docs : atStart.docs[d] > 0}

ArchivedAtStart == IndexIdsAtStart \cup {Str(n) : n \in atStart.stored}

AddedIds == {added[i] : i \in 1..Len(added)}

RemoteAtStart == {Str(n) : n \in FirstId .. (FirstId + atStart.published - 1)}

\* a run has returned without an exception
Completed == pc = "idle" /\ lastRun = "completed"

\* C1: a completed run that follows completed runs adds every remote post it was
\* offered that was not archived, and adds no post whose id was archived when it
\* started.
C1_IncrementalSync ==
    (Completed /\ runs >= 2 /\ ~interrupted)
      => /\ AddedIds \cap ArchivedAtStart = {}
         /\ RemoteAtStart \ ArchivedAtStart \subseteq AddedIds

\* C2: when a run completes after an earlier run failed or was killed, the
\* archive store holds every post the remote offered.
C2_GapFreeResumption ==
    (Completed /\ interrupted) => RemoteAtStart \subseteq {Str(n) : n \in StoredIds}

\* C3: a completed run that fetched no post the index did not hold leaves the
\* index's documents as they were, one document per id.
C3_SyncIdempotent ==
    (Completed /\ runs >= 2 /\ ~interrupted /\ AddedIds \subseteq IndexIdsAtStart)
      => /\ docs = atStart.docs
         /\ \A d \in DOMAIN docs : docs[d] <= 1

\* C4: after a completed run the ids of the index are the ids of the archive store.
C4_IndexMatchesStore ==
    Completed => IndexIds = {Str(n) : n \in StoredIds}

----------------------------------------------------------------------------
(* Renderer properties *)

\* C10: the lines render yields neither begin nor end with an empty line.
C10_NoOuterBlankLine ==
    (rpc # "feed" /\ yielded # <<>>)
      => (yielded[1] # <<>> /\ yielded[Len(yielded)] # <<>>)

\* the fragment fed has no tag, or no tag but the given one
NoTags == \A i \in 1..Len(src) : src[i] \in Chars

OnlyTag(tag) == \A i \in 1..Len(src) : src[i] \in Chars \/ src[i] = tag

RECURSIVE SplitAt(_, _)
\* the texts of a fragment between the occurrences of a tag
SplitAt(events, tag) ==
    IF \A i \in 1..Len(events) : events[i] # tag THEN <<events>>
    ELSE LET k == CHOOSE i \in 1..Len(events) :
                    events[i] = tag /\ \A j \in 1..(i - 1) : events[j] # tag
         IN <<SubSeq(events, 1, k - 1)>> \o SplitAt(SubSeq(events, k + 1, Len(events)), tag)

\* a text of one word that fits a display line
IsWord(text) ==
    /\ text # <<>>
    /\ Len(text) <= display_width
    /\ \A i \in 1..Len(text) : text[i] \notin Whitespace

AllWords(texts) == \A i \in 1..Len(texts) : IsWord(texts[i])

\* texts of letters only
AllLetters(texts) == \A i \in 1..Len(texts) : \A j \in 1..Len(texts[i]) : texts[i][j] = "a"

RECURSIVE Separated(_)
\* texts with one empty line between each two
Separated(texts) ==
    IF Len(texts) <= 1 THEN texts
    ELSE <<Head(texts), <<>>>> \o Separated(Tail(texts))

\* C11: the output never has two consecutive empty lines, and paragraphs of one
\* word of letters each are rendered with exactly one empty line between each two.
C11_InternalBlankRuns ==
    rpc # "feed"
      => /\ \A i \in 1..(Len(yielded) - 1) : ~(yielded[i] = <<>> /\ yielded[i + 1] = <<>>)
         /\ (OnlyTag("p") /\ AllWords(SplitAt(src, "p")) /\ AllLetters(SplitAt(src, "p")))
               => yielded = Separated(SplitAt(src, "p"))

\* C12: for a fragment with no tags the output is the word-wrap of the text at
\* display_width; for the empty fragment it is the empty sequence.
C12_NoTagsIsWrap ==
    (rpc # "feed" /\ NoTags) => yielded = wrap(src, display_width)

RECURSIVE Offset(_, _)
\* the number of output lines that the lines before the i-th account for, each
\* line accounting for the lines it wraps to, and for one when it wraps to none
Offset(ls, i) ==
    IF i <= 1 THEN 0
    ELSE Offset(ls, i - 1)
           + (IF wrap(ls[i - 1], display_width) = <<>> THEN 1
              ELSE Len(wrap(ls[i - 1], display_width)))

\* C13: every line that survives the blank-line normalization has its place in
\* the output: the lines it wraps to, or exactly one empty line when it wraps to
\* none; the output is these places in order and nothing else.
C13_WrapKeepsLinePositions ==
    rpc # "feed"
      => LET ls == compressed_lines(paragraphs)
         IN /\ Len(yielded) = Offset(ls, Len(ls) + 1)
            /\ Len(yielded) >= Len(ls)
            /\ \A i \in 1..Len(ls) :
                 LET w == wrap(ls[i], display_width)
                 IN IF w = <<>>
                    THEN yielded[Offset(ls, i) + 1] = <<>>
                    ELSE SubSeq(yielded, Offset(ls, i) + 1, Offset(ls, i) + Len(w)) = w

\* a whitespace-only line survived between two lines of text and is one empty line
C13_Witness ==
    /\ rpc = "done"
    /\ Len(yielded) = 3
    /\ yielded[2] = <<>>
    /\ LET ls == compressed_lines(paragraphs)
       IN Len(ls) = 3 /\ ls[2] # <<>> /\ wrap(ls[2], display_width) = <<>>

\* C14 as stated: a second enumeration of the value render returned yields the
\* lines of the first.
C14_ReEnumerable == rpc = "again" => again = yielded

\* C14: the value render returns is a generator: its first enumeration yields
\* the lines of the fragment, and a second enumeration of the same value yields
\* nothing.
C14_OneShot ==
    /\ rpc # "feed" => yielded = render_lines(compressed_lines(paragraphs), display_width)
    /\ rpc = "again" => (again = <<>> /\ gen = <<>>)
    /\ rpc = "done" => gen = <<>>

\* a value that yielded lines has been enumerated again
C14_Witness == rpc = "again" /\ Len(yielded) >= 2

\* C15: texts of one word each separated by single <br> are rendered as these
\* texts, one line each with no empty line between them, and separated by <p>
\* they are rendered with an empty line between them.
C15_BreakIsNotParagraph ==
    rpc # "feed"
      => /\ (OnlyTag("br") /\ AllWords(SplitAt(src, "br")) /\ Len(SplitAt(src, "br")) >= 2)
               => yielded = SplitAt(src, "br")
         /\ (OnlyTag("p") /\ AllWords(SplitAt(src, "p")) /\ Len(SplitAt(src, "p")) = 2)
               => (Len(yielded) = 3 /\ yielded[2] = <<>>)

RECURSIVE JoinNewline(_)
\* '\n'.join(lines)
JoinNewline(ls) ==
    IF ls = <<>> THEN <<>>
    ELSE IF Len(ls) = 1 THEN ls[1]
    ELSE ls[1] \o <<"\n">> \o JoinNewline(Tail(ls))

\* the lines render yields for a text without tags
RenderText(text) ==
    IF text = <<>> \/ Waits(text) THEN <<>>
    ELSE render_lines(compressed_lines(handle_data(<<>>, text)), display_width)

OpenAmp(line) ==
    \E i \in 1..Len(line) : line[i] = "&" /\ \A j \in (i + 1)..Len(line) : line[j] # " "

----------------------------------------------------------------------------
(* The index command: failures, pagination and unwinding *)

\* a run has ended with the exception of a failed request
Failed == pc = "idle" /\ lastRun = "failed"

\* the number of times the run added a document with the id
Times(ids, d) == Cardinality({i \in 1..Len(ids) : ids[i] = d})

RECURSIVE Flat(_)
\* the posts of a sequence of pages, in delivery order, as get_statuses yields them
Flat(ps) ==
    IF ps = <<>> THEN <<>>
    ELSE [i \in 1..Len(Head(ps).items) |-> StatusOf(RemoteRaw(Head(ps).items[i])).id]
         \o Flat(Tail(ps))

\* C18: the posts yielded are always the first posts, in order, of the pages
\* fetched; each page was requested when every post of the pages before it had
\* been yielded, and with the token of the page before it; and when the run
\* completes every post of every page has been yielded, once, and the last page
\* is the only one without a token.
C18_Pagination ==
    /\ Len(added) <= Len(Flat(pages))
    /\ added = SubSeq(Flat(pages), 1, Len(added))
    /\ \A k \in 1..Len(pages) :
         /\ pages[k].before = Len(Flat(SubSeq(pages, 1, k - 1)))
         /\ k > 1 => /\ pages[k - 1].next # <<>>
                     /\ pages[k].items = account_statuses(pages[k - 1].next)
    /\ (Completed /\ runs > 0)
         => /\ added = Flat(pages)
            /\ pages # <<>>
            /\ \A k \in 1..Len(pages) : (pages[k].next = <<>>) <=> (k = Len(pages))

\* a run of two pages has completed
C18_Witness ==
    /\ Completed
    /\ Len(pages) = 2
    /\ pages[2].items # <<>>
    /\ Len(added) = PageSize + 1

\* C19: when the command has returned or raised, its unwinding has closed the
\* client's session, then committed the writer, then closed the index, each once,
\* and the index holds the documents added in the run, those added before a failed
\* request included.
C19_CommitOnEveryExit ==
    (pc = "idle" /\ lastRun \in {"completed", "failed"})
        => /\ unwound = <<"session_close", "commit", "index_close">>
           /\ \A d \in DOMAIN docs :
                docs[d] >= atStart.docs[d] + Times(added, d)

\* a run has raised after it added a document, and the document is in the index
C19_Witness ==
    /\ Failed
    /\ added # <<>>
    /\ docs[added[1]] > atStart.docs[added[1]]
    /\ unwound = <<"session_close", "commit", "index_close">>

====
